---- MODULE Spec2Model ----
(***************************************************************************)
(* Model of the local test-network launcher and log dashboard,             *)
(* src/chain/src/main.rs: main, run_app, the per-node reader tasks, the    *)
(* bounded channels between them and the dashboard loop, and App.          *)
(*                                                                         *)
(* A line is <<i, k>>: the k-th line node i wrote on its error stream.     *)
(* A String is kept as the sequence of the runs of lines it was built      *)
(* from, a run <<i, k, n>> being the n lines of node i from the k-th on,   *)
(* so push_str is \o; LinesOf gives the lines of a String.                 *)
(***************************************************************************)
EXTENDS Integers, Sequences, FiniteSets, TLC

\* ---- bounds of the model ------------------------------------------------
MaxNodes == 2            \* largest --num-nodes explored by Spec
MaxWorkers == 2          \* largest number of runtime worker threads
MaxLines == 15           \* lines a node writes at most, in Spec
PipeCap == 10            \* lines the error-stream pipe holds before the node blocks
                         \* (at least ReadsPerBatch, or no round could complete)
MaxTabs == 6             \* largest --num-nodes explored by SpecTabs: one more
                         \* than the ui has arms
MaxPorts == 3            \* largest --num-nodes, and largest gap between the
                         \* port offsets, explored by SpecPorts
MaxViewLines == 45       \* lines a node writes at most, in SpecView: more than
                         \* the ViewThreshold lines of a window
MaxPlan == 4             \* largest --num-nodes explored by SpecPlan: a line
                         \* with two interior nodes
FullLines == 1030        \* lines the node writes at most, in SpecFull: enough for
                         \* 100 batches in the channel, one held and one received

\* ---- program constants --------------------------------------------------
ChannelCapacity == 100   \* tokio::sync::mpsc::channel(100)
ReadsPerBatch == 10      \* for _ in 0..10 { read_line }
ViewThreshold == 35      \* view_log: `if no_lines > 35`
ViewKept == 34           \* view_log: `lines.drain(0..no_lines - 34)`
UiArms == 5              \* match app.index { 0 .. 4, _ => unreachable!() }
MeshBakers == 5          \* `if i < 5`: the first nodes of a mesh are bakers
DefaultRpcOffset == 7000     \* default of --rpc-port-offset
DefaultPeerOffset == 8000    \* default of --peer-port-offset

VARIABLES
    cfg,             \* Config: num_nodes, optimal_connected, no_emit_logs,
                     \* rpc_port_offset, peer_port_offset
    env,             \* the machine: worker threads, lines a node may write, write
                     \* size, cred_files: bakers/baker-j-credentials.json exists
                     \* under the genesis root for j < cred_files, tail: a
                     \* node that exits leaves a last line without its newline,
                     \* and short: a write to a log file may be a short write
    mainPc,          \* position in main
    appPc,           \* position in run_app
    i_loop,          \* the loop variable i of run_app's launch / close / kill loops
    res,             \* result of run_app as seen by main
    rawMode,         \* terminal is in raw mode
    altScreen,       \* terminal is on the alternate screen
    exitStatus,      \* the exit status main's end has set, -1 before that
    printed,         \* "no", or the terminal state at the time the error was printed
    quitPressed,     \* `q` has been handled
    index,           \* app.index
    proc,            \* per node: "none", "running", "exited", "killed"
    forks,           \* indices whose Child has been pushed to forks
    written,         \* per node: lines written so far on its error stream
    pipe,            \* per node: lines written and not yet read
    task,            \* per node: state of its reader task
    held,            \* per node: the batch a parked send is holding
    chan,            \* per node: the batches in its channel
    rx,              \* per node: receiver "none", "open", "closed"
    log_buffers,     \* per node: the text appended by the dashboard
    logFile,         \* per node: "none" or the text written to peer-i.log
    sent,            \* per node: history of the batches accepted by the channel
    peer_dirs,       \* per node: what exists of peer-i: "none", "dir", "genesis"
    cmds,            \* per spawned node: the Command it was spawned from
    shown            \* the last frame drawn: the node in the title and the body

vars == <<cfg, env, mainPc, appPc, i_loop, res, rawMode, altScreen, exitStatus,
          printed, quitPressed, index, proc, forks, written, pipe, task, held,
          chan, rx, log_buffers, logFile, sent, peer_dirs, cmds,
          shown>>

mainVars == <<mainPc, res, rawMode, altScreen, exitStatus, printed>>
nodeVars == <<proc, written, pipe>>
taskVars == <<task, held, chan, logFile, sent>>
launchVars == <<peer_dirs, cmds>>

Nodes == 0 .. (cfg.num_nodes - 1)

Min(a, b) == IF a < b THEN a ELSE b

\* the empty map
NoEnv == [x \in {} |-> 0]

\* the String holding the n lines of node i from the k-th on
Run(i, k, n) == << <<i, k, n>> >>

\* the lines of a String, in order
RECURSIVE LinesOf(_)
LinesOf(text) ==
    IF text = <<>> THEN <<>>
    ELSE LET r == Head(text) IN
         [k \in 1 .. r[3] |-> <<r[1], r[2] + k - 1>>] \o LinesOf(Tail(text))

\* ---- App (src/chain/src/main.rs:69-93) ----------------------------------
\* App::next, for len > 0; with no titles the remainder by zero panics
App_next(idx, len) == (idx + 1) % len

\* a previous that stops at the first tab instead of wrapping
App_previousSaturating(idx, len) == IF idx > 0 THEN idx - 1 ELSE 0

\* App::previous; with no titles len - 1 underflows (shown here as -1)
App_previous(idx, len) == IF idx > 0 THEN idx - 1 ELSE len - 1

\* ui: the log the arm of `match app.index` passes to view_log; -1 for the
\* arm `_ => unreachable!()`
UiLogShown(idx) ==
    CASE idx = 0 -> 0
      [] idx = 1 -> 1
      [] idx = 2 -> 2
      [] idx = 3 -> 3
      [] idx = 4 -> 4
      [] OTHER -> -1

\* ui: logs.get(index).unwrap() and the five arms of its match
UiPanics(idx, nlogs) == idx >= nlogs \/ idx >= UiArms

\* ---- errors run_app returns, by their context --------------------------
ConfigErrors == {"invalid_genesis_path", "invalid_node_path", "find_genesis",
                 "baker_credentials"}
SpawnErrors == {"create_dir", "copy_genesis", "launch_node", "create_log"}
IoErrors == {"draw", "event_read", "kill"}

\* ---- initial states -----------------------------------------------------
InitOf(counts, modes, noLogs, rpcs, peers, workerCounts, lineLimit, writeSize, creds, tails, shorts) ==
    /\ cfg \in [num_nodes : counts, optimal_connected : modes,
                 no_emit_logs : noLogs, rpc_port_offset : rpcs,
                 peer_port_offset : peers]
    /\ env \in [workers : workerCounts, lineLimit : {lineLimit},
                 writeSize : {writeSize}, cred_files : creds, tail : tails,
                 short : shorts]
    /\ mainPc = "enable_raw"
    /\ appPc = "idle"
    /\ i_loop = 0
    /\ res = "none"
    /\ rawMode = FALSE
    /\ altScreen = FALSE
    /\ exitStatus = -1
    /\ printed = "no"
    /\ quitPressed = FALSE
    /\ index = 0
    /\ proc = [i \in Nodes |-> "none"]
    /\ forks = {}
    /\ written = [i \in Nodes |-> 0]
    /\ pipe = [i \in Nodes |-> 0]
    /\ task = [i \in Nodes |-> "none"]
    /\ held = [i \in Nodes |-> <<>>]
    /\ chan = [i \in Nodes |-> <<>>]
    /\ rx = [i \in Nodes |-> "none"]
    /\ log_buffers = [i \in Nodes |-> <<>>]
    /\ logFile = [i \in Nodes |-> "none"]
    /\ sent = [i \in Nodes |-> <<>>]
    /\ peer_dirs = [i \in Nodes |-> "none"]
    /\ cmds = NoEnv
    /\ shown = [node |-> -1, body |-> <<>>]

\* the default port offsets, and a genesis root with the credentials of
\* every baker a mesh asks for
InitWith(counts, modes, noLogs, workerCounts, lineLimit, writeSize) ==
    InitOf(counts, modes, noLogs, {DefaultRpcOffset}, {DefaultPeerOffset},
           workerCounts, lineLimit, writeSize, {MeshBakers}, {FALSE}, {FALSE})

\* the nodes write half a batch at a time
WriteSize == ReadsPerBatch \div 2

Init == InitWith(0 .. MaxNodes, BOOLEAN, BOOLEAN, 1 .. MaxWorkers, MaxLines, WriteSize)

\* one node, without a log file, whose output is enough to fill its channel
InitFull == InitWith({1}, {FALSE}, {TRUE}, {1}, FullLines, ReadsPerBatch)

\* ---- main (src/chain/src/main.rs:95-133) --------------------------------
TermState == IF rawMode \/ altScreen THEN "unrestored" ELSE "restored"

\* a `?` of main: its body returns the error, the runtime is dropped next
MainFails ==
    /\ mainPc' = "runtime_drop"
    /\ exitStatus' = 1

\* enable_raw_mode()?
EnableRawMode ==
    /\ mainPc = "enable_raw"
    /\ \E ok \in BOOLEAN :
         IF ok
         THEN /\ rawMode' = TRUE
              /\ mainPc' = "enter_alt"
              /\ UNCHANGED exitStatus
         ELSE /\ MainFails
              /\ UNCHANGED rawMode
    /\ UNCHANGED <<cfg, env, launchVars, shown, appPc, i_loop, res, altScreen, printed, quitPressed,
                   index, forks, rx, log_buffers>>
    /\ UNCHANGED <<nodeVars, taskVars>>

\* execute!(stdout, EnterAlternateScreen, EnableMouseCapture)?
EnterAlternateScreen ==
    /\ mainPc = "enter_alt"
    /\ \E ok \in BOOLEAN :
         IF ok
         THEN /\ altScreen' = TRUE
              /\ mainPc' = "new_terminal"
              /\ UNCHANGED exitStatus
         ELSE /\ MainFails
              /\ UNCHANGED altScreen
    /\ UNCHANGED <<cfg, env, launchVars, shown, appPc, i_loop, res, rawMode, printed, quitPressed,
                   index, forks, rx, log_buffers>>
    /\ UNCHANGED <<nodeVars, taskVars>>

\* Terminal::new(backend)?, then App::new and the call of run_app
NewTerminal ==
    /\ mainPc = "new_terminal"
    /\ \E ok \in BOOLEAN :
         IF ok
         THEN /\ mainPc' = "run_app"
              /\ appPc' = "canonicalize"
              /\ UNCHANGED exitStatus
         ELSE /\ MainFails
              /\ UNCHANGED appPc
    /\ UNCHANGED <<cfg, env, launchVars, shown, i_loop, res, rawMode, altScreen, printed, quitPressed,
                   index, forks, rx, log_buffers>>
    /\ UNCHANGED <<nodeVars, taskVars>>

\* the ways the restoration of the terminal can end, in the order of its `?`s
RestoreOutcomes == {"ok", "disable_raw_mode", "leave_alternate_screen", "show_cursor"}

\* disable_raw_mode()?; execute!(.., LeaveAlternateScreen, DisableMouseCapture)?;
\* terminal.show_cursor()?; if let Err(err) = res { println!(..) }; Ok(())
Restore ==
    /\ mainPc = "restore"
    /\ \E r \in RestoreOutcomes :
         /\ rawMode' = IF r = "disable_raw_mode" THEN rawMode ELSE FALSE
         /\ altScreen' = IF r \in {"disable_raw_mode", "leave_alternate_screen"}
                          THEN altScreen ELSE FALSE
         /\ IF r = "ok"
            THEN /\ printed' = IF res = "ok" THEN printed ELSE "restored"
                 /\ mainPc' = "runtime_drop"
                 /\ exitStatus' = 0
            ELSE /\ MainFails
                 /\ UNCHANGED printed
    /\ UNCHANGED <<cfg, env, launchVars, shown, appPc, i_loop, res, quitPressed, index, forks, rx,
                   log_buffers>>
    /\ UNCHANGED <<nodeVars, taskVars>>

\* a reader task that is running on a worker thread and has not yielded
OnWorker(i) == task[i] \in {"reading", "spin"}

\* the runtime is dropped when main's body is left: it joins its worker
\* threads, so it waits for every task that is inside a poll; an error main
\* returned is printed by the process's exit path
RuntimeDrop ==
    /\ mainPc = "runtime_drop"
    /\ \A i \in Nodes : ~OnWorker(i)
    /\ mainPc' = "exited"
    /\ printed' = IF exitStatus = 1 THEN TermState ELSE printed
    /\ UNCHANGED <<cfg, env, launchVars, shown, appPc, i_loop, res, rawMode, altScreen, exitStatus,
                   quitPressed, index, forks, rx, log_buffers>>
    /\ UNCHANGED <<nodeVars, taskVars>>

\* ---- run_app (src/chain/src/main.rs:135-359) ----------------------------
\* the receivers run_app owns are dropped when it is left
DropReceivers == [i \in Nodes |-> IF rx[i] = "open" THEN "closed" ELSE rx[i]]

\* run_app returns r to main; its locals (forks, receivers) are dropped,
\* and dropping a Child does not kill the process
Return(r) ==
    /\ appPc' = "done"
    /\ res' = r
    /\ mainPc' = "restore"
    /\ rx' = DropReceivers
    /\ UNCHANGED exitStatus

\* a panic on the main thread unwinds through run_app and main
Panic ==
    /\ appPc' = "panicked"
    /\ mainPc' = "runtime_drop"
    /\ exitStatus' = 101
    /\ rx' = DropReceivers
    /\ UNCHANGED res

\* canonicalize the genesis root and the node's manifest path
Canonicalize ==
    /\ appPc = "canonicalize"
    /\ \E r \in {"ok", "invalid_genesis_path", "invalid_node_path"} :
         IF r = "ok"
         THEN /\ appPc' = IF cfg.num_nodes = 0 THEN "frame" ELSE "launch"
              /\ UNCHANGED <<res, mainPc, rx, exitStatus>>
         ELSE Return(r)
    /\ i_loop' = 0
    /\ UNCHANGED <<cfg, env, launchVars, shown, rawMode, altScreen, printed, quitPressed, index,
                   forks, log_buffers>>
    /\ UNCHANGED <<nodeVars, taskVars>>

\* the nodes whose launch looks up baker credentials
LooksUpCredentials(i) ==
    IF ~cfg.optimal_connected THEN i = cfg.num_nodes - 1 ELSE i < MeshBakers

\* the j of the bakers/baker-j-credentials.json node i's launch looks up
CredentialsFile(i) == IF ~cfg.optimal_connected THEN 0 ELSE i

\* canonicalize() of the credentials file can succeed: the file exists
CredentialsFound(i) == CredentialsFile(i) < env.cred_files

\* the ways one pass of the launch loop can end, in the order of its `?`s
LaunchOutcomes(i) ==
    {"create_dir", "find_genesis", "copy_genesis"}
      \cup (IF LooksUpCredentials(i) THEN {"baker_credentials"} ELSE {})
      \cup (IF LooksUpCredentials(i) /\ ~CredentialsFound(i) THEN {}
            ELSE {"launch_node", "ok"}
                   \cup (IF ~cfg.no_emit_logs THEN {"create_log"} ELSE {}))

\* the outcomes in which cmd.spawn() has succeeded
Spawned(r) == r \in {"ok", "create_log"}

\* what exists of peer-i when the pass has ended with r: create_dir_all
\* comes first, then the copy of genesis.dat, then everything else
PeerDirAfter(r) ==
    CASE r = "create_dir" -> "none"
      [] r \in {"find_genesis", "copy_genesis"} -> "dir"
      [] OTHER -> "genesis"

\* an environment in which every node listens on the offset itself
CommonEnvOneListenPort(i) ==
    ("CONCORDIUM_NODE_ID" :> i)
      @@ ("CONCORDIUM_NODE_RPC_SERVER_PORT" :> i + cfg.rpc_port_offset)
      @@ ("CONCORDIUM_NODE_LISTEN_PORT" :> cfg.peer_port_offset)

\* the environment every node's command gets (the entries that differ
\* between the nodes)
CommonEnv(i) ==
    ("CONCORDIUM_NODE_ID" :> i)
      @@ ("CONCORDIUM_NODE_RPC_SERVER_PORT" :> i + cfg.rpc_port_offset)
      @@ ("CONCORDIUM_NODE_LISTEN_PORT" :> i + cfg.peer_port_offset)

\* a next_peer_port that is the node's own listen port
NextPeerPortOwn(i) == cfg.peer_port_offset + i

\* `let next_peer_port = cfg.peer_port_offset + i + 1;`
NextPeerPort(i) == cfg.peer_port_offset + i + 1

\* a line in which every node is told to keep one peer
SequentialPeersOne(i) == 1

\* `if i == 0 || i == cfg.num_nodes - 1 { .. 1 .. } else { .. 2 .. }`: the
\* peer count a node of the line is told to keep
SequentialPeers(i) == IF i = 0 \/ i = cfg.num_nodes - 1 THEN 1 ELSE 2

\* `if !cfg.optimal_connected { .. }`: the line O - O - O - O - B; a port
\* stands for the address 127.0.0.1:port, a credentials file for its j
SequentialEnv(i) ==
    (IF i = cfg.num_nodes - 1
     THEN "CONCORDIUM_NODE_BAKER_CREDENTIALS_FILE" :> 0 ELSE NoEnv)
      @@ (IF i < cfg.num_nodes - 1
          THEN "CONCORDIUM_NODE_CONNECTION_CONNECT_TO" :> NextPeerPort(i)
          ELSE NoEnv)
      @@ ("CONCORDIUM_NODE_CONNECTION_DESIRED_NODES" :> SequentialPeers(i))
      @@ ("CONCORDIUM_NODE_CONNECTION_MAX_ALLOWED_NODES" :> SequentialPeers(i))

\* `else { if i < 5 { .. } .. }`: the first nodes of a mesh are bakers
MeshEnv(i) ==
    IF i < MeshBakers THEN "CONCORDIUM_NODE_BAKER_CREDENTIALS_FILE" :> i ELSE NoEnv

\* `for n in 0..cfg.num_nodes { if i == n { continue; } --connect-to .. }`
ConnectToArgs(i) ==
    LET others == SelectSeq([k \in 1 .. cfg.num_nodes |-> k - 1], LAMBDA n : n # i)
    IN  [k \in 1 .. Len(others) |-> cfg.peer_port_offset + others[k]]

\* the Command node i is spawned from
Command(i) ==
    [envs |-> CommonEnv(i) @@ (IF ~cfg.optimal_connected THEN SequentialEnv(i)
                                ELSE MeshEnv(i)),
     connect_to |-> IF ~cfg.optimal_connected THEN <<>> ELSE ConnectToArgs(i)]

\* one pass of `for i in 0..cfg.num_nodes`
Launch ==
    /\ appPc = "launch"
    /\ i_loop < cfg.num_nodes
    /\ LET i == i_loop IN
       \E r \in LaunchOutcomes(i) :
         /\ peer_dirs' = [peer_dirs EXCEPT ![i] = PeerDirAfter(r)]
         /\ proc' = IF Spawned(r) THEN [proc EXCEPT ![i] = "running"] ELSE proc
         /\ cmds' = IF Spawned(r) THEN cmds @@ (i :> Command(i)) ELSE cmds
         /\ IF r = "ok"
            THEN /\ forks' = forks \cup {i}
                 /\ logFile' = IF cfg.no_emit_logs THEN logFile
                                ELSE [logFile EXCEPT ![i] = <<>>]
                 /\ rx' = [rx EXCEPT ![i] = "open"]
                 /\ task' = [task EXCEPT ![i] = "queued"]
                 /\ i_loop' = i + 1
                 /\ appPc' = IF i + 1 = cfg.num_nodes THEN "frame" ELSE "launch"
                 /\ UNCHANGED <<res, mainPc, exitStatus>>
            ELSE /\ Return(r)
                 /\ UNCHANGED <<forks, logFile, task, i_loop>>
    /\ UNCHANGED <<cfg, env, shown, rawMode, altScreen, printed, quitPressed, index,
                   written, pipe, held, chan, log_buffers, sent>>

\* try_recv on receiver i yields a batch
Receives(i) == rx[i] = "open" /\ chan[i] # <<>>

\* `for i in 0..cfg.num_nodes { if let Ok(log) = ..try_recv() { push_str } }`
DrainedChannels == [i \in Nodes |-> IF Receives(i) THEN Tail(chan[i]) ELSE chan[i]]

\* a dashboard that puts the received batch in front of the buffer
DrainedBuffersPrepended ==
    [i \in Nodes |-> IF Receives(i) THEN Head(chan[i]) \o log_buffers[i]
                                     ELSE log_buffers[i]]

DrainedBuffers ==
    [i \in Nodes |-> IF Receives(i) THEN log_buffers[i] \o Head(chan[i])
                                     ELSE log_buffers[i]]

\* ---- view_log (src/chain/src/main.rs:405-424) ----------------------------
\* the number of lines of a String, as line.lines() splits it
RECURSIVE LineCount(_)
LineCount(text) ==
    IF text = <<>> THEN 0 ELSE Head(text)[3] + LineCount(Tail(text))

\* the String ends with the line its node left without a newline
EndsUnterminated(text) ==
    /\ text # <<>>
    /\ LET r == text[Len(text)] IN
         /\ env.tail
         /\ proc[r[1]] = "exited"
         /\ r[2] + r[3] - 1 = written[r[1]]

\* `line.as_bytes().iter().filter(|&&c| c == b'\n').count()`
NoNewlines(text) == LineCount(text) - (IF EndsUnterminated(text) THEN 1 ELSE 0)

\* `lines.drain(0..d)`: the String without its first d lines
RECURSIVE DrainLines(_, _)
DrainLines(text, d) ==
    IF d <= 0 \/ text = <<>> THEN text
    ELSE LET r == Head(text) IN
         IF r[3] <= d THEN DrainLines(Tail(text), d - r[3])
         ELSE << <<r[1], r[2] + d, r[3] - d>> >> \o Tail(text)

\* the text view_log puts in the Paragraph
view_log(line) ==
    LET no_lines == NoNewlines(line) IN
    IF no_lines > ViewThreshold THEN DrainLines(line, no_lines - ViewKept) ELSE line

\* what a frame that ui has drawn shows, the channels having been drained
DrawnFrame ==
    [node |-> UiLogShown(index), body |-> view_log(DrainedBuffers[UiLogShown(index)])]

\* the ways terminal.draw(|f| ui(..).unwrap())? can end
DrawOutcomes ==
    IF UiPanics(index, cfg.num_nodes) THEN {"draw", "panic"} ELSE {"ok", "draw"}

\* one frame: drain every channel once, then draw the ui
Frame ==
    /\ appPc = "frame"
    /\ chan' = DrainedChannels
    /\ log_buffers' = DrainedBuffers
    /\ \E r \in DrawOutcomes :
         CASE r = "ok" -> /\ appPc' = "event"
                          /\ shown' = DrawnFrame
                          /\ UNCHANGED <<res, mainPc, rx, exitStatus>>
           [] r = "panic" -> Panic /\ UNCHANGED shown
           [] OTHER -> Return(r) /\ UNCHANGED shown
    /\ UNCHANGED <<cfg, env, launchVars, i_loop, rawMode, altScreen, printed, quitPressed,
                   index, forks, task, held, logFile, sent>>
    /\ UNCHANGED nodeVars

Events == {"q", "Right", "Left", "other_key", "no_key", "event_read"}

\* a match in which every key but the arrows takes the arm of `q`
KeyArmAnyKeyQuits(ev) == IF ev \in {"Right", "Left"} THEN ev ELSE "q"

\* the arm of `match key.code` a key event takes, "_" being the last one
KeyArm(ev) == IF ev \in {"q", "Right", "Left"} THEN ev ELSE "_"

\* what run_app does with the outcome ev of event::read()
HandleEvent(ev) ==
    CASE ev = "event_read" ->
           /\ Return(ev)
           /\ UNCHANGED <<index, quitPressed, i_loop>>
      [] ev = "no_key" ->
           /\ appPc' = "frame"
           /\ UNCHANGED <<index, quitPressed, i_loop, res, mainPc, rx, exitStatus>>
      [] KeyArm(ev) = "q" ->
           /\ quitPressed' = TRUE
           /\ appPc' = "close"
           /\ i_loop' = 0
           /\ UNCHANGED <<index, res, mainPc, rx, exitStatus>>
      [] KeyArm(ev) = "Right" ->
           IF cfg.num_nodes = 0
           THEN /\ Panic
                /\ UNCHANGED <<index, quitPressed, i_loop>>
           ELSE /\ index' = App_next(index, cfg.num_nodes)
                /\ appPc' = "frame"
                /\ UNCHANGED <<quitPressed, i_loop, res, mainPc, rx, exitStatus>>
      [] KeyArm(ev) = "Left" ->
           /\ index' = App_previous(index, cfg.num_nodes)
           /\ appPc' = "frame"
           /\ UNCHANGED <<quitPressed, i_loop, res, mainPc, rx, exitStatus>>
      [] OTHER ->
           /\ appPc' = "frame"
           /\ UNCHANGED <<index, quitPressed, i_loop, res, mainPc, rx, exitStatus>>

\* `if let Event::Key(key) = event::read()? { match key.code { .. } }`:
\* event::read blocks until the terminal delivers an event
ReadEvent ==
    /\ appPc = "event"
    /\ \E ev \in Events : HandleEvent(ev)
    /\ UNCHANGED <<cfg, env, launchVars, shown, rawMode, altScreen, printed, forks,
                   log_buffers>>
    /\ UNCHANGED <<nodeVars, taskVars>>

\* a shutdown that goes on to the kill loop without closing any receiver
CloseReceiverSkipped ==
    /\ appPc = "close"
    /\ appPc' = "kill"
    /\ i_loop' = 0
    /\ UNCHANGED <<cfg, env, launchVars, shown, mainPc, res, rawMode, altScreen, exitStatus,
                   printed, quitPressed, index, forks, rx, log_buffers>>
    /\ UNCHANGED <<nodeVars, taskVars>>

\* `for mut receiver in stdout_receivers { receiver.close(); }`, one pass,
\* or the end of the loop
CloseReceiver ==
    /\ appPc = "close"
    /\ IF i_loop < cfg.num_nodes
       THEN /\ rx' = [rx EXCEPT ![i_loop] = "closed"]
            /\ i_loop' = i_loop + 1
            /\ UNCHANGED appPc
       ELSE /\ appPc' = "kill"
            /\ i_loop' = 0
            /\ UNCHANGED rx
    /\ UNCHANGED <<cfg, env, launchVars, shown, mainPc, res, rawMode, altScreen, exitStatus, printed,
                   quitPressed, index, forks, log_buffers>>
    /\ UNCHANGED <<nodeVars, taskVars>>

\* Child::kill on a process: a running one is terminated
Killed(st) == IF st = "running" THEN "killed" ELSE st

\* `for mut f in forks { f.kill()?; }`, one pass, or `return Ok(())`
KillFork ==
    /\ appPc = "kill"
    /\ IF i_loop < cfg.num_nodes
       THEN \E ok \in BOOLEAN :
              IF ok
              THEN /\ proc' = [proc EXCEPT ![i_loop] = Killed(proc[i_loop])]
                   /\ i_loop' = i_loop + 1
                   /\ UNCHANGED <<appPc, res, mainPc, rx, exitStatus>>
              ELSE /\ Return("kill")
                   /\ UNCHANGED <<proc, i_loop>>
       ELSE /\ Return("ok")
            /\ UNCHANGED <<proc, i_loop>>
    /\ UNCHANGED <<cfg, env, launchVars, shown, rawMode, altScreen, printed, quitPressed, index,
                   forks, written, pipe, log_buffers>>
    /\ UNCHANGED taskVars

\* ---- the nodes (the environment) ----------------------------------------
\* the read end of node i's error stream is held by its reader task
ReadEndOpen(i) == task[i] \in {"queued", "reading", "send_wait", "spin"}

\* node i writes env.writeSize lines on its error stream
NodeWrite(i) ==
    /\ mainPc # "exited"
    /\ proc[i] = "running"
    /\ ReadEndOpen(i)
    /\ written[i] + env.writeSize <= env.lineLimit
    /\ pipe[i] + env.writeSize <= PipeCap
    /\ written' = [written EXCEPT ![i] = @ + env.writeSize]
    /\ pipe' = [pipe EXCEPT ![i] = @ + env.writeSize]
    /\ UNCHANGED <<cfg, env, launchVars, shown, appPc, i_loop, quitPressed, index, proc, forks, rx,
                   log_buffers>>
    /\ UNCHANGED <<mainVars, taskVars>>

\* node i exits on its own; with env.tail the last thing it writes is a line
\* without its newline, which read_line returns at the end of the stream
NodeExit(i) ==
    /\ mainPc # "exited"
    /\ proc[i] = "running"
    /\ proc' = [proc EXCEPT ![i] = "exited"]
    /\ written' = IF env.tail THEN [written EXCEPT ![i] = @ + 1] ELSE written
    /\ pipe' = IF env.tail THEN [pipe EXCEPT ![i] = @ + 1] ELSE pipe
    /\ UNCHANGED <<cfg, env, launchVars, shown, appPc, i_loop, quitPressed, index, forks,
                   rx, log_buffers>>
    /\ UNCHANGED <<mainVars, taskVars>>

\* ---- the reader tasks (src/chain/src/main.rs:301-324) -------------------
\* the write end of node i's error stream is closed: read_line returns Ok(0)
AtEof(i) == proc[i] \in {"exited", "killed"}

\* the runtime has a worker thread that is not inside a task
FreeWorker ==
    /\ mainPc \notin {"runtime_drop", "exited"}
    /\ Cardinality({j \in Nodes : OnWorker(j)}) < env.workers

\* a channel that takes one batch more than its capacity
HasCapacityOffByOne(q) == Len(q) <= ChannelCapacity

\* tokio's bounded channel has a free slot
HasCapacity(q) == Len(q) < ChannelCapacity

\* a send that does not notice that the receiver is closed
SendOutcomeUnawareOfClose(q, r) == IF HasCapacity(q) THEN "sent" ELSE "wait"

\* sender.send(batch).await on channel q whose receiver is in state r
SendOutcome(q, r) ==
    IF r # "open" THEN "closed"
    ELSE IF HasCapacity(q) THEN "sent" ELSE "wait"

\* the send of batch b by task i: enqueue, park, or fail and unwrap
Send(i, b) ==
    LET o == SendOutcome(chan[i], rx[i]) IN
    /\ chan' = IF o = "sent" THEN [chan EXCEPT ![i] = Append(@, b)] ELSE chan
    /\ sent' = IF o = "sent" THEN [sent EXCEPT ![i] = Append(@, b)] ELSE sent
    /\ held' = [held EXCEPT ![i] = IF o = "wait" THEN b ELSE <<>>]
    /\ task' = [task EXCEPT ![i] = CASE o = "sent" -> "reading"
                                      [] o = "wait" -> "send_wait"
                                      [] OTHER -> "panicked"]

\* a worker thread takes the spawned task i and polls it
TaskStart(i) ==
    /\ task[i] = "queued"
    /\ FreeWorker
    /\ task' = [task EXCEPT ![i] = "reading"]
    /\ UNCHANGED <<cfg, env, launchVars, shown, appPc, i_loop, quitPressed, index, forks, rx,
                   log_buffers, held, chan, logFile, sent>>
    /\ UNCHANGED <<mainVars, nodeVars>>

\* a round that takes everything the stream holds
RoundSizeUnbounded(i) == pipe[i]

\* the lines the ten read_line calls of one round return
RoundSize(i) == Min(pipe[i], ReadsPerBatch)

RoundBatch(i) == Run(i, written[i] - pipe[i] + 1, RoundSize(i))

\* the numbers of lines of a batch a successful `fh.write(..)` may have
\* written: write makes one attempt and returns how much it wrote, and the
\* task does not look at that amount
LogWriteSizes(i) ==
    IF env.short THEN 0 .. RoundSize(i) ELSE {RoundSize(i)}

\* the first k lines of the batch of this round
RoundPart(i, k) ==
    IF k = 0 THEN <<>> ELSE Run(i, written[i] - pipe[i] + 1, k)

\* one round of the task's loop: ten blocking read_line calls, then, if
\* they returned text, the write to the log file and the send
ReadRound(i) ==
    /\ task[i] = "reading"
    /\ pipe[i] >= ReadsPerBatch \/ AtEof(i)
    /\ pipe' = [pipe EXCEPT ![i] = @ - RoundSize(i)]
    /\ IF RoundSize(i) = 0
       THEN \* nothing read: the loop goes round again, without an await
            /\ task' = [task EXCEPT ![i] = "spin"]
            /\ UNCHANGED <<held, chan, logFile, sent>>
       ELSE \E ok \in BOOLEAN :
              IF logFile[i] = "none"
              THEN /\ ok
                   /\ Send(i, RoundBatch(i))
                   /\ UNCHANGED logFile
              ELSE IF ok
              THEN /\ \E k \in LogWriteSizes(i) :
                        logFile' = [logFile EXCEPT ![i] = @ \o RoundPart(i, k)]
                   /\ Send(i, RoundBatch(i))
              ELSE \* fh.write failed: .unwrap() panics and the task ends
                   /\ task' = [task EXCEPT ![i] = "panicked"]
                   /\ UNCHANGED <<held, chan, logFile, sent>>
    /\ UNCHANGED <<cfg, env, launchVars, shown, appPc, i_loop, quitPressed, index, proc, forks,
                   written, rx, log_buffers>>
    /\ UNCHANGED mainVars

\* a parked send is woken by a free slot or by the receiver closing, and
\* completes once a worker thread polls the task again
SendResume(i) ==
    /\ task[i] = "send_wait"
    /\ FreeWorker
    /\ SendOutcome(chan[i], rx[i]) # "wait"
    /\ Send(i, held[i])
    /\ UNCHANGED <<cfg, env, launchVars, shown, appPc, i_loop, quitPressed, index, forks, rx,
                   log_buffers, logFile>>
    /\ UNCHANGED <<mainVars, nodeVars>>

\* ---- the specifications -------------------------------------------------
MainStep ==
    \/ EnableRawMode
    \/ EnterAlternateScreen
    \/ NewTerminal
    \/ Restore
    \/ RuntimeDrop

AppStep ==
    \/ Canonicalize
    \/ Launch
    \/ Frame
    \/ CloseReceiver
    \/ KillFork

TaskStep == \E i \in Nodes : TaskStart(i) \/ ReadRound(i) \/ SendResume(i)

NodeStep == \E i \in Nodes : NodeWrite(i) \/ NodeExit(i)

Next == MainStep \/ AppStep \/ ReadEvent \/ TaskStep \/ NodeStep

Spec == Init /\ [][Next]_vars

\* the run in which a channel fills: only here does a send park (send_wait)
SpecFull == InitFull /\ [][Next]_vars

\* Spec with the fairness the code's scheduling gives: main, run_app and the
\* runtime's tasks take their steps; the user and the nodes owe nothing
FairInit == InitWith({2}, {FALSE}, {TRUE}, {2}, MaxLines, WriteSize)

FairSpec ==
    /\ FairInit /\ [][Next]_vars
    /\ WF_vars(MainStep) /\ WF_vars(AppStep) /\ WF_vars(TaskStep)

\* the tabs: up to MaxTabs silent nodes in a line, on one worker thread
TabsInit == InitWith(0 .. MaxTabs, {FALSE}, {TRUE}, {1}, 0, WriteSize)

SpecTabs == TabsInit /\ [][Next]_vars

\* the launch plan: up to MaxPlan silent nodes, in both topologies, under a
\* genesis root with any number of credentials files up to MaxPlan
PlanInit ==
    InitOf(0 .. MaxPlan, BOOLEAN, {TRUE}, {DefaultRpcOffset}, {DefaultPeerOffset},
           {1}, 0, WriteSize, 0 .. MaxPlan, {FALSE}, {FALSE})

SpecPlan == PlanInit /\ [][Next]_vars

\* the ports: lines of 1 to MaxPorts silent nodes whose peer port offset is
\* up to MaxPorts below or above the rpc port offset
PortsInit ==
    InitOf(1 .. MaxPorts, {FALSE}, {TRUE}, {DefaultRpcOffset},
           {DefaultRpcOffset + g : g \in (0 - MaxPorts) .. MaxPorts},
           {1}, 0, WriteSize, {MeshBakers}, {FALSE}, {FALSE})

SpecPorts == PortsInit /\ [][Next]_vars

\* the view: one node that writes up to MaxViewLines lines, more than a
\* window holds, and may leave a last line without its newline
ViewInit ==
    InitOf({1}, {FALSE}, {TRUE}, {DefaultRpcOffset}, {DefaultPeerOffset},
           {1}, MaxViewLines, WriteSize, {MeshBakers}, BOOLEAN, {FALSE})

SpecView == ViewInit /\ [][Next]_vars

\* the log files: one node that writes up to MaxLines lines, with and without
\* log files, whose last line may lack its newline and whose file may take
\* fewer bytes than a write offers
LogsInit ==
    InitOf({1}, {FALSE}, BOOLEAN, {DefaultRpcOffset}, {DefaultPeerOffset},
           {1}, MaxLines, WriteSize, {MeshBakers}, BOOLEAN, BOOLEAN)

SpecLogs == LogsInit /\ [][Next]_vars

\* ---- the claims ---------------------------------------------------------
\* the errors with which the launch loop returns
LaunchErrors == {"create_dir", "find_genesis", "copy_genesis", "baker_credentials",
                 "launch_node", "create_log"}

\* C1: once `q` has been handled and run_app has returned, every spawned
\* process has been killed, whatever the outcome of killing the others: the
\* only process that may still run is one whose own kill failed.
C1_QuitKillsEveryProcess ==
    (quitPressed /\ appPc = "done") =>
        \A i \in Nodes :
            proc[i] # "running" \/ (res = "kill" /\ i = i_loop)

\* C2: when the launch of node k fails, the processes spawned for nodes
\* 0..k-1 have been killed by the time run_app returns the error.
C2_LaunchFailureKillsSpawned ==
    (appPc = "done" /\ res \in LaunchErrors) =>
        \A j \in 0 .. (i_loop - 1) : proc[j] # "running"

\* C3: a channel never holds more than 100 batches; a send parks only on a
\* full channel and, while the receiver is open, ends only by enqueueing the
\* batch it held; and while the receiver stays open a channel changes only
\* by a batch added at its end or by its first batch moving to the buffer.
C3_Step(i) ==
    /\ (task[i] # "send_wait" /\ task'[i] = "send_wait") =>
          /\ Len(chan[i]) = ChannelCapacity
          /\ held'[i] # <<>>
          /\ chan'[i] = chan[i]
    /\ (task[i] = "send_wait" /\ task'[i] # "send_wait" /\ rx[i] = "open") =>
          /\ Len(chan[i]) < ChannelCapacity
          /\ chan'[i] = Append(chan[i], held[i])
    /\ (rx[i] = "open" /\ rx'[i] = "open") =>
          \/ chan'[i] = chan[i] /\ log_buffers'[i] = log_buffers[i]
          \/ /\ Len(chan'[i]) = Len(chan[i]) + 1
             /\ SubSeq(chan'[i], 1, Len(chan[i])) = chan[i]
             /\ log_buffers'[i] = log_buffers[i]
          \/ /\ chan[i] # <<>>
             /\ chan'[i] = Tail(chan[i])
             /\ log_buffers'[i] = log_buffers[i] \o Head(chan[i])

C3_ChannelBoundedNoLoss ==
    /\ [](\A i \in Nodes : Len(chan[i]) <= ChannelCapacity)
    /\ [][\A i \in Nodes : C3_Step(i)]_vars

\* C3's case: a full channel, its sender parked with a batch, the dashboard
\* having received before
C3_Witness ==
    \E i \in Nodes :
        /\ Len(chan[i]) = ChannelCapacity
        /\ rx[i] = "open"
        /\ task[i] = "send_wait"
        /\ held[i] # <<>>
        /\ log_buffers[i] # <<>>

\* the lines 1..n of node i, in the order the node wrote them
NodeLines(i, n) == [k \in 1 .. n |-> <<i, k>>]

\* the concatenation of a sequence of Strings
RECURSIVE Concat(_)
Concat(ss) == IF ss = <<>> THEN <<>> ELSE Head(ss) \o Concat(Tail(ss))

\* text a is the beginning of text b
IsPrefix(a, b) == Len(a) <= Len(b) /\ SubSeq(b, 1, Len(a)) = a

\* C4: the batches a channel accepted are node i's lines in the order the
\* node wrote them; LogBuffer i is the concatenation of the first k of them
\* for some k; and no step shortens or rewrites a LogBuffer.
C4_State(i) ==
    /\ LinesOf(Concat(sent[i])) = NodeLines(i, Len(LinesOf(Concat(sent[i]))))
    /\ \E k \in 0 .. Len(sent[i]) :
          LinesOf(log_buffers[i]) = LinesOf(Concat(SubSeq(sent[i], 1, k)))

C4_BufferIsPrefixOfSent ==
    /\ [](\A i \in Nodes : C4_State(i))
    /\ [][\A i \in Nodes :
            IsPrefix(LinesOf(log_buffers[i]), LinesOf(log_buffers'[i]))]_vars

\* C4's case: two nodes, one with two batches in its buffer, the other with
\* a batch in its buffer too
C4_Witness ==
    \E i, j \in Nodes :
        /\ i # j
        /\ Len(log_buffers[i]) = 2
        /\ Len(sent[i]) = 2
        /\ log_buffers[j] # <<>>

\* the dashboard is in its render loop
Running == appPc \in {"frame", "event"}

\* C5: while the dashboard is Running, a batch waiting in a node's channel
\* is eventually received into that node's LogBuffer, whether or not a key
\* is ever pressed.
C5_PendingBatchIsAppended ==
    \A i \in 0 .. (MaxNodes - 1) :
        (i \in Nodes /\ Running /\ Receives(i)) ~> (~Running \/ ~Receives(i))

\* task i holds a worker thread and does not give it back: it is blocked
\* in read_line on a silent node, or loops on the end of an exited node's stream
HoldsWorker(i) ==
    \/ task[i] = "spin"
    \/ task[i] = "reading" /\ pipe[i] < ReadsPerBatch /\ ~AtEof(i)

\* task j is ready to run and its node has a round's output waiting
ReadyWithOutput(j) == task[j] = "queued" /\ pipe[j] >= ReadsPerBatch

\* every worker thread of the runtime is held by a task of another node
WorkersHeldByOthers(j) ==
    Cardinality({i \in Nodes \ {j} : HoldsWorker(i)}) >= env.workers

\* C6: while the dashboard is Running, a task whose node has output waiting
\* is never kept from running by the tasks of silent or exited nodes.
C6_SilentNodeBlocksNoOther ==
    Running => \A j \in Nodes : ~(ReadyWithOutput(j) /\ WorkersHeldByOthers(j))

\* C7: a task that has read the end of its node's stream (the stream is
\* closed, nothing is left in it) has ended: it executes no more.
C7_TaskEndsAtEndOfStream ==
    \A i \in Nodes : (AtEof(i) /\ pipe[i] = 0 /\ task[i] # "reading") => ~OnWorker(i)

\* C8: when a node has exited mid-run, the dashboard stays Running and each
\* other node's output still reaches its task: the exited node's task does
\* not keep a worker thread from a task whose node has output waiting.
C8_ExitedNodeLeavesOthersRunning ==
    Running =>
        \A i, j \in Nodes :
            ~(/\ i # j
              /\ proc[i] = "exited"
              /\ task[i] = "spin"
              /\ ReadyWithOutput(j)
              /\ Cardinality({k \in Nodes : task[k] = "spin"}) >= env.workers)

\* the restoration of the terminal itself failed
RestoreFailed == appPc = "done" /\ exitStatus = 1

\* C9: when the program has exited, the terminal is in its original mode,
\* unless the restoration itself failed.
C9_TerminalRestoredOnExit ==
    (mainPc = "exited" /\ ~RestoreFailed) => (~rawMode /\ ~altScreen)

\* the terminal setup failed
SetupFailed == appPc = "idle" /\ exitStatus = 1

\* C10: the exit status is 0 only on a clean quit; after a configuration or
\* spawn error of run_app, or a failed terminal setup, it is non-zero and the
\* error has been printed with the terminal restored.
C10_ExitStatusTellsFailure ==
    mainPc = "exited" =>
        /\ exitStatus = 0 => (res = "ok" /\ quitPressed)
        /\ (res \in ConfigErrors \cup SpawnErrors \/ SetupFailed) =>
              (exitStatus # 0 /\ printed = "restored")

\* the step is run_app's handling of the outcome ev of event::read()
Handles(ev) == appPc = "event" /\ HandleEvent(ev)

\* C11: for every number of nodes n >= 1 and every index i in [0, n), Right
\* (App::next) moves the index to (i + 1) mod n and Left (App::previous) to
\* (i - 1) mod n: previous from 0 gives n - 1, next from n - 1 gives 0.
C11_NextPreviousAreCyclic ==
    [][/\ Handles("Right") =>
            /\ index' = (index + 1) % cfg.num_nodes
            /\ (index = cfg.num_nodes - 1 => index' = 0)
       /\ Handles("Left") =>
            /\ index' = (index - 1) % cfg.num_nodes
            /\ (index = 0 => index' = cfg.num_nodes - 1)]_vars

\* the last tab of the largest fleet is shown: previous has wrapped from the
\* first tab, or next has stepped through every tab
C11_Witness ==
    /\ cfg.num_nodes = MaxTabs
    /\ index = cfg.num_nodes - 1
    /\ appPc = "frame"

\* C12: in every state of the dashboard the index of the active tab is in
\* [0, num_nodes), and the index changes only when a Right or Left key is
\* handled.
C12_IndexInRange ==
    /\ [](Running => index \in 0 .. (cfg.num_nodes - 1))
    /\ [][index' # index => Handles("Right") \/ Handles("Left")]_vars

\* C13: with any number of nodes n >= 1, at every index the keys reach, the
\* frame shows the log buffer of the node whose number is the index, and
\* drawing it never aborts the dashboard.
C13_FrameShowsActiveNode ==
    cfg.num_nodes >= 1 =>
        /\ Running => UiLogShown(index) = index
        /\ appPc # "panicked"

\* the dashboard is closing its channels and killing the processes
ShuttingDown == appPc \in {"close", "kill"}

\* C14: a key other than Left, Right and q leaves the index, the log
\* buffers, the channels and the processes as they are and the dashboard
\* running; Left and Right change nothing but the index; only q takes the
\* dashboard from running to shutting down.
C14_KeysDoOnlyTheirOwn ==
    [][/\ Handles("other_key") =>
            /\ UNCHANGED <<index, log_buffers, chan, rx, proc, forks>>
            /\ Running'
       /\ (Handles("Right") \/ Handles("Left")) =>
            /\ UNCHANGED <<log_buffers, chan, rx, proc, forks, quitPressed>>
            /\ Running'
       /\ (Running /\ ShuttingDown') => Handles("q")]_vars

\* q has been handled after the keys had moved the index off the first tab
C14_Witness ==
    /\ quitPressed
    /\ ShuttingDown
    /\ index # 0

\* C15: when run_app returns a configuration error (invalid genesis root,
\* genesis.dat not found, baker credentials not found), no node process has
\* been spawned and no data directory or file has been created.
C15_ConfigErrorBeforeAnyEffect ==
    (appPc = "done" /\ res \in ConfigErrors) =>
        \A i \in Nodes :
            /\ proc[i] = "none"
            /\ peer_dirs[i] = "none"
            /\ logFile[i] = "none"

\* C16: with --num-nodes 0 the launch fails with a configuration error: the
\* dashboard loop is never entered, no frame is drawn, and run_app returns
\* nothing but a configuration error.
C16_NoNodesIsConfigError ==
    cfg.num_nodes = 0 =>
        /\ ~Running
        /\ appPc # "panicked"
        /\ appPc = "done" => res \in ConfigErrors

\* the peers a command tells its node to connect to: the one of its
\* environment, then those of its arguments
ConnectTo(c) ==
    (IF "CONCORDIUM_NODE_CONNECTION_CONNECT_TO" \in DOMAIN c.envs
     THEN <<c.envs["CONCORDIUM_NODE_CONNECTION_CONNECT_TO"]>> ELSE <<>>)
      \o c.connect_to

\* the port a command tells its node to listen on
ListenPort(c) == c.envs["CONCORDIUM_NODE_LISTEN_PORT"]

\* C17: in sequential mode every node i < num_nodes - 1 is spawned with
\* exactly one peer to connect to, the listen address of node i + 1, and the
\* last node with none.
C17_SequentialConnectTo ==
    ~cfg.optimal_connected =>
        \A i \in DOMAIN cmds :
            /\ Len(ConnectTo(cmds[i])) = IF i < cfg.num_nodes - 1 THEN 1 ELSE 0
            /\ (i + 1) \in DOMAIN cmds =>
                   ConnectTo(cmds[i]) = <<ListenPort(cmds[i + 1])>>

\* a line of three nodes has been spawned
C17_Witness ==
    /\ ~cfg.optimal_connected
    /\ DOMAIN cmds = 0 .. 2
    /\ cfg.num_nodes = 3
    /\ Len(ConnectTo(cmds[1])) = 1

\* the command sets both peer counts, the desired and the maximum, to k
PeerCountsAre(c, k) ==
    /\ "CONCORDIUM_NODE_CONNECTION_DESIRED_NODES" \in DOMAIN c.envs
    /\ "CONCORDIUM_NODE_CONNECTION_MAX_ALLOWED_NODES" \in DOMAIN c.envs
    /\ c.envs["CONCORDIUM_NODE_CONNECTION_DESIRED_NODES"] = k
    /\ c.envs["CONCORDIUM_NODE_CONNECTION_MAX_ALLOWED_NODES"] = k

\* C18 as stated: in sequential mode every node, the interior ones as well
\* as the two ends, is spawned with desired and maximum peer count 1.
C18_EveryNodeKeepsOnePeer ==
    ~cfg.optimal_connected =>
        \A i \in DOMAIN cmds : PeerCountsAre(cmds[i], 1)

\* C18, amended: in sequential mode the first and the last node are spawned
\* with desired and maximum peer count 1, every node between them with 2.
C18_EndsOneInteriorTwo ==
    ~cfg.optimal_connected =>
        \A i \in DOMAIN cmds :
            PeerCountsAre(cmds[i], IF i \in {0, cfg.num_nodes - 1} THEN 1 ELSE 2)

\* a line with two interior nodes has been spawned
C18_Witness ==
    /\ ~cfg.optimal_connected
    /\ cfg.num_nodes = MaxPlan
    /\ DOMAIN cmds = Nodes
    /\ PeerCountsAre(cmds[1], 2)

\* the nodes spawned with a baker credentials file
Bakers ==
    {i \in DOMAIN cmds : "CONCORDIUM_NODE_BAKER_CREDENTIALS_FILE" \in DOMAIN cmds[i].envs}

\* the genesis root has a credentials file for every node index
EveryNodeHasCredentials == env.cred_files >= cfg.num_nodes

\* C19: in sequential mode, once every node is spawned, exactly one node, the
\* last, has been given baker credentials, unless a credentials file exists
\* for every node index: then every node has been given baker credentials.
C19_SequentialBakers ==
    (~cfg.optimal_connected /\ cfg.num_nodes >= 1 /\ DOMAIN cmds = Nodes) =>
        Bakers = IF EveryNodeHasCredentials THEN Nodes ELSE {cfg.num_nodes - 1}

\* the elements of a sequence
Range(q) == {q[k] : k \in DOMAIN q}

\* the listen ports of the nodes other than i
OtherListenPorts(i) == {j + cfg.peer_port_offset : j \in Nodes \ {i}}

\* C20: in full-mesh mode node i is spawned with a peer to connect to for
\* exactly the nodes j # i, each once, and with desired and maximum peer
\* count num_nodes - 1.
C20_MeshConnectsToAllOthers ==
    cfg.optimal_connected =>
        \A i \in DOMAIN cmds :
            /\ Range(ConnectTo(cmds[i])) = OtherListenPorts(i)
            /\ Len(ConnectTo(cmds[i])) = cfg.num_nodes - 1
            /\ PeerCountsAre(cmds[i], cfg.num_nodes - 1)

\* the launch loop has spawned every node
AllSpawned == DOMAIN cmds = Nodes

\* C21: in full-mesh mode under a genesis root with K baker credentials
\* files the launch does not fail for want of a credentials file, whatever
\* K >= 0 is, and once every node is spawned the bakers are exactly the
\* nodes with index below min(K, num_nodes).
C21_MeshBakersAreFirstK ==
    cfg.optimal_connected =>
        /\ res # "baker_credentials"
        /\ AllSpawned => Bakers = 0 .. (Min(env.cred_files, cfg.num_nodes) - 1)

\* the port a command tells its node to serve rpc on
RpcPort(c) == c.envs["CONCORDIUM_NODE_RPC_SERVER_PORT"]

\* the gap between the two port offsets
OffsetGap ==
    IF cfg.peer_port_offset >= cfg.rpc_port_offset
    THEN cfg.peer_port_offset - cfg.rpc_port_offset
    ELSE cfg.rpc_port_offset - cfg.peer_port_offset

\* C22: with num_nodes > 0, when the launch loop is through, exactly
\* num_nodes nodes have been configured; node i has rpc port
\* rpc_port_offset + i and listen port peer_port_offset + i; the listen
\* ports are pairwise distinct, the rpc ports are pairwise distinct, and if
\* num_nodes does not exceed the gap between the offsets, no rpc port is a
\* listen port.
C22_PortsAreOffsetPlusIndex ==
    /\ Running => AllSpawned
    /\ \A i \in DOMAIN cmds :
         /\ RpcPort(cmds[i]) = cfg.rpc_port_offset + i
         /\ ListenPort(cmds[i]) = cfg.peer_port_offset + i
    /\ \A i, j \in DOMAIN cmds :
         /\ i # j => ListenPort(cmds[i]) # ListenPort(cmds[j])
         /\ i # j => RpcPort(cmds[i]) # RpcPort(cmds[j])
         /\ cfg.num_nodes <= OffsetGap => RpcPort(cmds[i]) # ListenPort(cmds[j])

\* the largest line is spawned with offsets whose gap is just the node count
C22_Witness ==
    /\ cfg.num_nodes = MaxPorts
    /\ OffsetGap = cfg.num_nodes
    /\ AllSpawned
    /\ Running

\* q ends with the sequence p
IsSuffix(p, q) ==
    /\ Len(p) <= Len(q)
    /\ \A k \in 1 .. Len(p) : p[k] = q[Len(q) - Len(p) + k]

\* C23: when a frame has been drawn of a log buffer that holds more than 35
\* lines, the body shown is a suffix of the buffer's lines, ends with the
\* buffer's last line and has at most 35 lines; and the buffer still holds
\* every line the dashboard has received.
C23_BodyIsLastLinesOfBuffer ==
    (appPc = "event" /\ LineCount(log_buffers[index]) > 35) =>
        LET buf == LinesOf(log_buffers[index])
            body == LinesOf(shown.body)
        IN  /\ shown.node = index
            /\ IsSuffix(body, buf)
            /\ body # <<>>
            /\ body[Len(body)] = buf[Len(buf)]
            /\ Len(body) <= 35
            /\ buf \o LinesOf(Concat(chan[index])) = LinesOf(Concat(sent[index]))

\* C24: a process is killed only after the receiver of its channel has been
\* closed; and the dashboard reads the channels (a frame's try_recv on every
\* receiver) only when every node's process has been spawned.
C24_CloseBeforeKillSpawnBeforeRead ==
    /\ [](\A i \in Nodes : proc[i] = "killed" => rx[i] = "closed")
    /\ [][Frame => \A i \in Nodes : proc[i] # "none" /\ rx[i] # "none"]_vars

\* a process has been killed while the kill loop is still running
C24_Witness ==
    /\ appPc = "kill"
    /\ \E i \in Nodes : proc[i] = "killed"

\* task i is parked in a send, in a runtime that has not been shut down
BlockedInSend(i) ==
    /\ i \in Nodes
    /\ task[i] = "send_wait"
    /\ mainPc \notin {"runtime_drop", "exited"}

\* `q` has closed the receiver of channel i
ClosedByQuit(i) == i \in Nodes /\ quitPressed /\ rx[i] = "closed"

\* what a step does to task i once `q` has closed its channel
C25_Step(i) ==
    ClosedByQuit(i) =>
        /\ (task'[i] # task[i] /\ task[i] = "send_wait") => task'[i] = "panicked"
        /\ task'[i] = "send_wait" => task[i] = "send_wait"
        /\ sent'[i] = sent[i]
        /\ log_buffers'[i] = log_buffers[i]

Terminated ==
    /\ mainPc = "exited"
    /\ appPc = "done"
    /\ ~rawMode /\ ~altScreen
    /\ \A i \in Nodes : ~OnWorker(i)

\* C26: after `q` has been pressed the program eventually ends: the
\* shutdown is through, no reader task is running, the terminal is restored
\* and the process has exited.
C26_QuitTerminates == quitPressed ~> Terminated

\* the lines the channel of node i has accepted: those in its log buffer
\* and those still in the channel
AcceptedLines(i) == LinesOf(log_buffers[i]) \o LinesOf(Concat(chan[i]))

\* C27: with log files enabled, the lines of the batches in node i's channel
\* and log buffer are, in that order, the beginning of node i's log file:
\* each batch has been written before it was sent; with --no-emit-logs
\* there is no log file.
C27_LogFileBeforeChannel ==
    \A i \in Nodes :
        IF cfg.no_emit_logs \/ logFile[i] = "none"
        THEN /\ logFile[i] = "none"
             /\ cfg.no_emit_logs \/ AcceptedLines(i) = <<>>
        ELSE IsPrefix(AcceptedLines(i), LinesOf(logFile[i]))

\* a batch is not empty and has at most 10 lines
BatchOk(b) == LineCount(b) \in 1 .. 10

\* what C28 says of a step of task i
C28_Step(i) ==
    /\ (task[i] = "reading" /\ task'[i] = "spin") =>
           /\ sent'[i] = sent[i]
           /\ chan'[i] = chan[i]
           /\ logFile'[i] = logFile[i]
    /\ (sent'[i] # sent[i] \/ logFile'[i] # logFile[i]) =>
           (task[i] # "none" => pipe'[i] < pipe[i] \/ task[i] = "send_wait")

\* C28: every batch a task has sent, or is holding in a parked send, is
\* non-empty and has at most 10 lines; a round whose reads return no text
\* sends nothing and writes nothing to the log file, and only a round that
\* has read text sends or writes.
C28_BatchesAreOneToTenLines ==
    /\ [](\A i \in Nodes :
            /\ \A k \in DOMAIN sent[i] : BatchOk(sent[i][k])
            /\ task[i] = "send_wait" => BatchOk(held[i]))
    /\ [][\A i \in Nodes : C28_Step(i)]_vars

\* the task has cut a batch at ten lines, sent the eleventh line in a batch
\* of its own, and then gone through a round that read nothing
C28_Witness ==
    /\ task[0] = "spin"
    /\ Len(sent[0]) = 2
    /\ LineCount(sent[0][1]) = ReadsPerBatch
    /\ LineCount(sent[0][2]) = 1
    /\ ~cfg.no_emit_logs

====
